---- MODULE Spec2Model ----
(***************************************************************************)
(* A model of the tangogql websocket event relay (src/aioserver.py):       *)
(* the EventKeeper aggregator, the consumer delivery coroutine, the        *)
(* handle_websocket session coroutine and the db_handler query gateway.    *)
(***************************************************************************)
EXTENDS Naturals, Sequences, FiniteSets

(***************************************************************************)
(* Bounds of the model.                                                    *)
(***************************************************************************)
\* largest number of EventKeeper.put calls in one behaviour
MaxPuts == 3
\* largest number of EventKeeper.get calls in one behaviour
MaxGets == 2
\* largest value the wall clock read by time.time() reaches
MaxClock == 1
\* largest number of events the monitoring subsystem reports in one session
MaxEvents == 1
\* largest number of TaurusWebAttribute objects created in one behaviour
MaxListeners == 2
\* longest "models" list of a command
MaxModels == 2
\* characters of a literal's text
MaxDigits == 2
\* elements of a list literal
MaxItems == 2

(***************************************************************************)
(* Domains of the inputs.                                                  *)
(***************************************************************************)
\* point identifiers ("models") for which an adapter can be created
Points == {"a", "b"}
\* event kinds ("action" argument of put)
EventKinds == {"VALUE_CHANGED", "ERROR"}
\* event values
Values == {"1.0", "2.0"}
\* Python's None
None == "None"
\* point identifiers for which creating the adapter fails
BadPoints == {"bad"}
\* the "type" values clients send
CommandTypes == {"SUBSCRIBE", "UNSUBSCRIBE", "PING"}
\* what ws.protocol can be after the handshake: None when no sub-protocol was agreed
Protocols == {"json", "bson", None}

VARIABLES
    _events,        \* EventKeeper._events: kind -> (model -> value), pending
    _timestamps,    \* EventKeeper._timestamps: kind -> (model -> time)
    _latest,        \* EventKeeper._latest: kind -> (model -> value)
    batch,          \* the value returned by the last EventKeeper.get
    clock,          \* the value time.time() returns now
    nputs,          \* number of put calls so far
    ngets,          \* number of get calls so far
    lastPut,        \* history: (kind, model) -> value of the last put since the previous get
    overwrote,      \* history: a put since the previous get replaced a different pending value
    batchOverwrote, \* history: the batch of the last get covers such a replaced value
    lastEver,       \* history: (kind, model) -> value of the last put ever made
    hstate,         \* handle_websocket: "prepare" (l.103), "receive" (l.118), "raised"
    hexc,           \* the exception that left handle_websocket, None if none
    protocol,       \* ws.protocol
    transport,      \* the client's connection: "open" or "closed"
    listeners,      \* handle_websocket's dict: model -> index of its listener in objs
    objs,           \* every TaurusWebAttribute created: [name, cleared (calls of clear())]
    unsub,          \* history: models unsubscribed and not subscribed again
    cstate,         \* consumer: "notstarted", "running", "stopped" (break), "raised"
    cexc,           \* the exception that left consumer, None if none
    sent,           \* the last data written to ws by consumer
    nwrites,        \* history: number of ws.send_str / ws.send_bytes calls so far
    dbcall,         \* the last db_handler call: its request, engine outcome and response
    pput,           \* a put running on a callback thread, between its read and its write
    node,           \* the literal node given to the last ScalarTypes.parse_literal call
    result          \* what that call produced

keeperVars == <<_events, _timestamps, _latest>>
historyVars == <<batch, clock, nputs, ngets, lastPut, overwrote, batchOverwrote, lastEver>>
handlerVars == <<hstate, hexc, protocol, transport, listeners, objs, unsub>>
consumerVars == <<cstate, cexc, sent, nwrites>>
threadVars == <<pput>>
typesVars == <<node, result>>
vars == <<keeperVars, historyVars, handlerVars, consumerVars, dbcall, threadVars, typesVars>>

(***************************************************************************)
(* Python dict and defaultdict(dict) as functions with a finite domain.    *)
(***************************************************************************)
\* {}
EmptyDict == [x \in {} |-> None]

\* d[k] = v
DictSet(d, k, v) == [x \in DOMAIN d \cup {k} |-> IF x = k THEN v ELSE d[x]]

\* d[k] of a defaultdict(dict): a missing key reads as a fresh {}
DefaultGet(d, k) == IF k \in DOMAIN d THEN d[k] ELSE EmptyDict

\* d.update(e)
DictUpdate(d, e) ==
    [x \in DOMAIN d \cup DOMAIN e |-> IF x \in DOMAIN e THEN e[x] ELSE d[x]]

\* d.pop(k, None): the dict without k
DictPop(d, k) == [x \in DOMAIN d \ {k} |-> d[x]]

\* the value stored for (kind, model) in a two-level dict, None when absent
Lookup(d, kind, model) ==
    IF kind \in DOMAIN d /\ model \in DOMAIN d[kind] THEN d[kind][model] ELSE None

(***************************************************************************)
(* EventKeeper                                                             *)
(***************************************************************************)
\* EventKeeper.__init__
EventKeeperInit ==
    /\ _events = EmptyDict
    /\ _timestamps = EmptyDict
    /\ _latest = EmptyDict

\* a put that keeps the pending value instead of overwriting it
put_keep_first(model, action, value) ==
    /\ _events' = IF Lookup(_events, action, model) # None
                  THEN _events
                  ELSE DictSet(_events, action,
                               DictSet(DefaultGet(_events, action), model, value))
    /\ _timestamps' = DictSet(_timestamps, action,
                              DictSet(DefaultGet(_timestamps, action), model, clock))
    /\ UNCHANGED _latest

\* a put that replaces the whole map of its kind by the one new entry
put_clears_kind(model, action, value) ==
    /\ _events' = DictSet(_events, action, DictSet(EmptyDict, model, value))
    /\ _timestamps' = DictSet(_timestamps, action,
                              DictSet(DefaultGet(_timestamps, action), model, clock))
    /\ UNCHANGED _latest

\* EventKeeper.put(model, action, value)
put(model, action, value) ==
    /\ _events' = DictSet(_events, action,
                          DictSet(DefaultGet(_events, action), model, value))
    /\ _timestamps' = DictSet(_timestamps, action,
                              DictSet(DefaultGet(_timestamps, action), model, clock))
    /\ UNCHANGED _latest

\* a loop of get that assigns each kind's events instead of merging them
LatestUpdate_assign(latest, tmp) ==
    [t \in DOMAIN latest \cup DOMAIN tmp |->
        IF t \in DOMAIN tmp THEN tmp[t] ELSE latest[t]]

\* the loop of get: self._latest[event_type].update(events) for each kind of tmp
LatestUpdate(latest, tmp) ==
    [t \in DOMAIN latest \cup DOMAIN tmp |->
        IF t \in DOMAIN tmp THEN DictUpdate(DefaultGet(latest, t), tmp[t])
                            ELSE latest[t]]

\* a get that returns the pending events without swapping them out
get_no_swap ==
    /\ batch' = _events
    /\ _events' = _events
    /\ _latest' = LatestUpdate(_latest, _events)
    /\ UNCHANGED _timestamps

\* a get that returns the latest-value map instead of the swapped-out events
get_returns_latest ==
    /\ batch' = LatestUpdate(_latest, _events)
    /\ _events' = EmptyDict
    /\ _latest' = LatestUpdate(_latest, _events)
    /\ UNCHANGED _timestamps

\* EventKeeper.get(): the returned dict is batch'
get ==
    /\ batch' = _events
    /\ _events' = EmptyDict
    /\ _latest' = LatestUpdate(_latest, _events)
    /\ UNCHANGED _timestamps

(***************************************************************************)
(* Calls of put and get, with the history the claims are stated over.      *)
(***************************************************************************)
PutCall(model, action, value) ==
    /\ nputs < MaxPuts
    /\ put(model, action, value)
    /\ nputs' = nputs + 1
    /\ lastPut' = [lastPut EXCEPT ![<<action, model>>] = value]
    /\ overwrote' = (overwrote \/ lastPut[<<action, model>>] \notin {None, value})
    /\ lastEver' = [lastEver EXCEPT ![<<action, model>>] = value]
    /\ UNCHANGED <<batch, clock, ngets, batchOverwrote>>

GetCall ==
    /\ ngets < MaxGets
    /\ get
    /\ ngets' = ngets + 1
    /\ lastPut' = [key \in EventKinds \X Points |-> None]
    /\ batchOverwrote' = overwrote
    /\ overwrote' = FALSE
    /\ UNCHANGED <<clock, nputs, lastEver>>

\* time passes: time.time() returns a later value
Tick ==
    /\ clock < MaxClock
    /\ clock' = clock + 1
    /\ UNCHANGED <<keeperVars, batch, nputs, ngets, lastPut, overwrote, batchOverwrote,
                   lastEver, handlerVars, consumerVars, dbcall, threadVars, typesVars>>

(***************************************************************************)
(* serialize and consumer                                                  *)
(***************************************************************************)
\* json.dumps(obj): a str holding the JSON text of obj
json_dumps(obj) == [type |-> "str", text |-> obj]

\* serialize(events, protocol): the data returned, or the exception raised.
\* The module never imports bson, so the "bson" branch raises NameError.
serialize(events, proto) ==
    IF proto = "json" THEN [raised |-> None, data |-> json_dumps([events |-> events])]
    ELSE IF proto = "bson" THEN [raised |-> "NameError", data |-> None]
    ELSE [raised |-> "ValueError", data |-> None]

\* a consumer whose loop goes on after a failed send
ConsumerCycle_no_break ==
    /\ cstate \in {"running", "stopped"}
    /\ GetCall
    /\ LET ser == serialize(batch', protocol) IN
         IF ser.raised # None
         THEN cstate' = "raised" /\ cexc' = ser.raised /\ UNCHANGED <<sent, nwrites>>
         ELSE IF transport = "closed"
         THEN cstate' = "stopped" /\ nwrites' = nwrites + 1 /\ UNCHANGED <<cexc, sent>>
         ELSE sent' = ser.data /\ nwrites' = nwrites + 1 /\ UNCHANGED <<cstate, cexc>>
    /\ UNCHANGED <<handlerVars, dbcall, threadVars, typesVars>>

\* One iteration of consumer's loop after the sleep: get, serialize, send.
\* ws.send_str / ws.send_bytes raise RuntimeError on a closed connection;
\* only RuntimeError is caught (break), any other exception leaves the task.
ConsumerCycle ==
    /\ cstate = "running"
    /\ GetCall
    /\ LET ser == serialize(batch', protocol) IN
         IF ser.raised # None
         THEN cstate' = "raised" /\ cexc' = ser.raised /\ UNCHANGED <<sent, nwrites>>
         ELSE IF transport = "closed"
         THEN cstate' = "stopped" /\ nwrites' = nwrites + 1 /\ UNCHANGED <<cexc, sent>>
         ELSE sent' = ser.data /\ nwrites' = nwrites + 1 /\ UNCHANGED <<cstate, cexc>>
    /\ UNCHANGED <<handlerVars, dbcall, threadVars, typesVars>>

(***************************************************************************)
(* TaurusWebAttribute (listener.py): the adapter of one point              *)
(***************************************************************************)
\* a listener is registered with the monitoring subsystem from its creation
\* until its clear()
Active(o) == o.cleared = 0

\* the exception classes creating an adapter for a bad identifier can raise
AdapterErrors == {"RuntimeError", "DevFailed"}

\* the monitoring subsystem reports an event to a registered listener, which
\* forwards it: keeper.put(self.name, kind, value)
SourceEvent ==
    /\ nputs < MaxEvents
    /\ \E i \in 1..Len(objs), action \in EventKinds, value \in Values :
          /\ Active(objs[i])
          /\ PutCall(objs[i].name, action, value)
    /\ UNCHANGED <<handlerVars, consumerVars, dbcall, threadVars, typesVars>>

(***************************************************************************)
(* handle_websocket                                                        *)
(***************************************************************************)
NoText == [syntax |-> "none", hasType |-> FALSE, type |-> None,
           hasModels |-> FALSE, models |-> <<>>]

ModelLists == UNION {[1..n -> Points \cup BadPoints] : n \in 0..MaxModels}

\* the text frames a client sends: JSON objects with or without the keys
\* "type" and "models", a JSON array, and text that is not JSON
Texts ==
    {[syntax |-> "object", hasType |-> ht, type |-> IF ht THEN t ELSE None,
      hasModels |-> hm, models |-> IF hm THEN ms ELSE <<>>] :
        ht \in BOOLEAN, t \in CommandTypes, hm \in BOOLEAN, ms \in ModelLists}
    \cup {[NoText EXCEPT !.syntax = "array"], [NoText EXCEPT !.syntax = "invalid"]}

\* json.loads(data): the parsed value (a dict for a JSON object, a list for a
\* JSON array), or ValueError for text that is not JSON
json_loads(data) ==
    IF data.syntax = "invalid"
    THEN [raised |-> "ValueError", isdict |-> FALSE, value |-> EmptyDict]
    ELSE IF data.syntax = "array"
    THEN [raised |-> None, isdict |-> FALSE, value |-> <<>>]
    ELSE [raised |-> None, isdict |-> TRUE,
          value |-> [k \in (IF data.hasType THEN {"type"} ELSE {})
                           \cup (IF data.hasModels THEN {"models"} ELSE {}) |->
                        IF k = "type" THEN data.type ELSE data.models]]

\* the state the command loops work on: the listeners dict, the objects
\* created so far, and the exception raised (None while none)
RECURSIVE SubscribeLoop(_, _, _)
\* lines 125-128: for attr in models: listeners[attr] = TaurusWebAttribute(attr, keeper)
SubscribeLoop(models, st, err) ==
    IF models = <<>> THEN st
    ELSE LET attr == Head(models) IN
         IF attr \in BadPoints
         THEN [st EXCEPT !.exc = err]
         ELSE SubscribeLoop(Tail(models),
                  [st EXCEPT !.objs = Append(st.objs, [name |-> attr, cleared |-> 0]),
                             !.listeners = DictSet(st.listeners, attr, Len(st.objs) + 1),
                             !.unsub = st.unsub \ {attr}],
                  err)

RECURSIVE UnsubscribeLoop_pop_raises(_, _)
\* an UNSUBSCRIBE loop whose pop has no default: a missing key raises KeyError
UnsubscribeLoop_pop_raises(models, st) ==
    IF models = <<>> THEN st
    ELSE LET attr == Head(models) IN
         IF attr \in DOMAIN st.listeners
         THEN UnsubscribeLoop_pop_raises(Tail(models),
                  [st EXCEPT !.objs[st.listeners[attr]].cleared = @ + 1,
                             !.listeners = DictPop(st.listeners, attr),
                             !.unsub = st.unsub \cup {attr}])
         ELSE [st EXCEPT !.exc = "KeyError"]

RECURSIVE UnsubscribeLoop_keeps_entry(_, _)
\* an UNSUBSCRIBE loop that looks the listener up without removing its entry
UnsubscribeLoop_keeps_entry(models, st) ==
    IF models = <<>> THEN st
    ELSE LET attr == Head(models) IN
         UnsubscribeLoop_keeps_entry(Tail(models),
             IF attr \in DOMAIN st.listeners
             THEN [st EXCEPT !.objs[st.listeners[attr]].cleared = @ + 1,
                             !.unsub = st.unsub \cup {attr}]
             ELSE [st EXCEPT !.unsub = st.unsub \cup {attr}])

RECURSIVE UnsubscribeLoop(_, _)
\* lines 130-134: for attr in models: listener = listeners.pop(attr, None); clear it
UnsubscribeLoop(models, st) ==
    IF models = <<>> THEN st
    ELSE LET attr == Head(models) IN
         UnsubscribeLoop(Tail(models),
             IF attr \in DOMAIN st.listeners
             THEN [st EXCEPT !.objs[st.listeners[attr]].cleared = @ + 1,
                             !.listeners = DictPop(st.listeners, attr),
                             !.unsub = st.unsub \cup {attr}]
             ELSE [st EXCEPT !.unsub = st.unsub \cup {attr}])

\* lines 121-137: the body of the try for message m; exc is what it raises
Dispatch(m, st, err) ==
    IF m.tp = "text"
    THEN LET parsed == json_loads(m.data) IN
         IF parsed.raised # None THEN [st EXCEPT !.exc = parsed.raised]
         ELSE LET action == parsed.value IN
              IF ~parsed.isdict THEN [st EXCEPT !.exc = "TypeError"]
              ELSE IF "type" \notin DOMAIN action THEN [st EXCEPT !.exc = "KeyError"]
              ELSE IF action["type"] = "SUBSCRIBE"
              THEN IF "models" \notin DOMAIN action THEN [st EXCEPT !.exc = "KeyError"]
                   ELSE SubscribeLoop(action["models"], st, err)
              ELSE IF action["type"] = "UNSUBSCRIBE"
              THEN IF "models" \notin DOMAIN action THEN [st EXCEPT !.exc = "KeyError"]
                   ELSE UnsubscribeLoop(action["models"], st)
              ELSE st
    ELSE st

\* lines 138-139: only RuntimeError is caught; the loop then goes on
Caught(exc) == exc = "RuntimeError"

\* the messages ws.receive() returns while the client is connected
OpenMessages ==
    {[tp |-> "text", data |-> t] : t \in Texts}
    \cup {[tp |-> "error", data |-> NoText], [tp |-> "binary", data |-> NoText]}

\* the message ws.receive() returns once the connection is closed
ClosedMessages == {[tp |-> "closed", data |-> NoText]}

\* the messages ws.receive() returns
Messages(tr) == IF tr = "open" THEN OpenMessages ELSE ClosedMessages

\* the number of adapters the message asks to create
Creates(m) ==
    IF m.tp = "text" /\ m.data.syntax = "object" /\ m.data.hasType
       /\ m.data.type = "SUBSCRIBE"
    THEN Len(m.data.models) ELSE 0

\* lines 102-110: the handshake, then the keeper, the consumer task and the
\* empty listeners dict
Handshake ==
    /\ hstate = "prepare"
    /\ \E proto \in Protocols : protocol' = proto
    /\ hstate' = "receive"
    /\ cstate' = "running"
    /\ listeners' = EmptyDict
    /\ UNCHANGED <<keeperVars, historyVars, hexc, transport, objs, unsub,
                   cexc, sent, nwrites, dbcall, threadVars, typesVars>>

\* lines 117-139: one iteration of the read loop, for the message m that
\* ws.receive() returned; err is what a failing adapter creation raises
HandleOne(m, err) ==
    /\ hstate = "receive"
    /\ m \in Messages(transport)
    /\ Len(objs) + Creates(m) <= MaxListeners
    /\ LET st == Dispatch(m, [listeners |-> listeners, objs |-> objs,
                              unsub |-> unsub, exc |-> None], err)
       IN /\ listeners' = st.listeners
          /\ objs' = st.objs
          /\ unsub' = st.unsub
          /\ IF st.exc = None \/ Caught(st.exc)
             THEN UNCHANGED <<hstate, hexc>>
             ELSE hstate' = "raised" /\ hexc' = st.exc
    /\ UNCHANGED <<keeperVars, historyVars, protocol, transport, consumerVars, dbcall,
                   threadVars, typesVars>>

\* the exceptions handling m can meet when it creates an adapter
ErrorsFor(m) ==
    IF \E i \in 1..Len(m.data.models) : m.data.models[i] \in BadPoints
    THEN AdapterErrors ELSE {"RuntimeError"}

HandleMessage ==
    \E m \in Messages(transport) : \E err \in ErrorsFor(m) : HandleOne(m, err)

\* line 118: ws.receive() on a closed connection raises RuntimeError outside
\* the try, which leaves handle_websocket; lines 141-148 are not reached
ReceiveRaises ==
    /\ hstate = "receive"
    /\ transport = "closed"
    /\ hstate' = "raised"
    /\ hexc' = "RuntimeError"
    /\ UNCHANGED <<keeperVars, historyVars, protocol, transport, listeners,
                   objs, unsub, consumerVars, dbcall, threadVars, typesVars>>

\* the client goes away
ClientClose ==
    /\ hstate # "prepare"
    /\ transport = "open"
    /\ transport' = "closed"
    /\ UNCHANGED <<keeperVars, historyVars, hstate, hexc, protocol, listeners,
                   objs, unsub, consumerVars, dbcall, threadVars, typesVars>>

(***************************************************************************)
(* db_handler                                                              *)
(***************************************************************************)
NoCall == [hasQuery |-> FALSE, engine |-> "none", response |-> "none", raised |-> None]

\* what tangoschema.execute does with a query: returns a result with data,
\* returns a result whose data is None, or raises
EngineOutcomes == {"data", "nodata", "raises"}

\* lines 154-165: the response returned (a web.Response with the JSON body
\* {"data": ...}), "absent" when the coroutine returns None, and the exception
\* that leaves it
db_handler(hasQuery, engine) ==
    IF ~hasQuery
    THEN [hasQuery |-> hasQuery, engine |-> "none", response |-> "none",
          raised |-> "KeyError"]
    ELSE IF engine = "raises"
    THEN [hasQuery |-> hasQuery, engine |-> engine, response |-> "absent",
          raised |-> None]
    ELSE [hasQuery |-> hasQuery, engine |-> engine,
          response |-> IF engine = "data" THEN "data-result" ELSE "data-empty",
          raised |-> None]

DbRequest ==
    /\ \E hasQuery \in BOOLEAN, engine \in EngineOutcomes :
          dbcall' = db_handler(hasQuery, engine)
    /\ UNCHANGED <<keeperVars, historyVars, handlerVars, consumerVars, threadVars,
                   typesVars>>

(***************************************************************************)
(* EventKeeper.put on a callback thread of the monitoring subsystem        *)
(***************************************************************************)
\* no put is between its read and its write
NoPut == [active |-> FALSE, model |-> None, action |-> None, value |-> None, gen |-> 0]

(***************************************************************************)
(* ScalarTypes.parse_literal (src/tangogql/schema/types.py)                *)
(***************************************************************************)
\* an ast node: its class, its value (the token's text, or the bool of a
\* BooleanValue) and, for a ListValue, its values
Node(kind, text, flag, values) ==
    [kind |-> kind, text |-> text, flag |-> flag, values |-> values]

\* a Python value: an int, a float num / 10^exp, a bool, a str, a list or an
\* exception object; tag "raised" stands for a call that ended by raising exc
Res(tag) ==
    [tag |-> tag, num |-> 0, exp |-> 0, text |-> <<>>, flag |-> FALSE,
     exc |-> None, items |-> <<>>]

\* no call yet
NoNode == Node("none", <<>>, FALSE, <<>>)
NoResult == Res("none")

Digits == {"0", "1"}
Chars == Digits \cup {".", "x"}
Literals == UNION {[1..n -> Chars] : n \in 0..MaxDigits}
\* the node classes whose value is a text; EnumValue and ObjectValue are two
\* of the classes parse_literal has no branch for
TextKinds == {"IntValue", "FloatValue", "StringValue", "EnumValue"}

LeafNodes ==
    {Node(kind, text, FALSE, <<>>) : kind \in TextKinds, text \in Literals}
        \cup {Node("BooleanValue", <<>>, flag, <<>>) : flag \in BOOLEAN}
        \cup {Node("ObjectValue", <<>>, FALSE, <<>>)}
ShortLeaves == {n \in LeafNodes : Len(n.text) <= 1}
InnerLists ==
    {Node("ListValue", <<>>, FALSE, values) :
        values \in {<<>>, <<Node("EnumValue", <<"x">>, FALSE, <<>>)>>,
                    <<Node("IntValue", <<"1">>, FALSE, <<>>)>>}}
Elements == ShortLeaves \cup InnerLists
ListNodes ==
    {Node("ListValue", <<>>, FALSE, values) :
        values \in UNION {[1..k -> Elements] : k \in 0..MaxItems}}
Nodes == LeafNodes \cup ListNodes

IsDigits(text) == Len(text) >= 1 /\ \A i \in 1..Len(text) : text[i] \in Digits

RECURSIVE DigitsValue(_)
\* the number a string of decimal digits denotes
DigitsValue(text) ==
    IF text = <<>> THEN 0
    ELSE 10 * DigitsValue(SubSeq(text, 1, Len(text) - 1))
             + (IF text[Len(text)] = "1" THEN 1 ELSE 0)

\* the outcome of an expression: the exception it raises, or its value
Returns(val) == [raised |-> None, val |-> val]
Raises(exc) == [raised |-> exc, val |-> NoResult]

\* int(text): leading zeros are accepted, anything but digits is a ValueError
int(text) ==
    IF IsDigits(text)
    THEN Returns([Res("int") EXCEPT !.num = DigitsValue(text)])
    ELSE Raises("ValueError")

RECURSIVE Reduce(_, _)
\* num / 10^exp with the trailing zeros of the fraction dropped
Reduce(num, exp) ==
    IF exp > 0 /\ num % 10 = 0 THEN Reduce(num \div 10, exp - 1)
    ELSE [Res("float") EXCEPT !.num = num, !.exp = exp]

\* float(text): digits with at most one point and at least one digit
float(text) ==
    LET points == {i \in 1..Len(text) : text[i] = "."}
        digits == SelectSeq(text, LAMBDA c : c # ".")
    IN
    IF Cardinality(points) <= 1 /\ IsDigits(digits)
    THEN Returns(Reduce(DigitsValue(digits),
                        IF points = {} THEN 0
                        ELSE Len(text) - (CHOOSE i \in points : TRUE)))
    ELSE Raises("ValueError")

RECURSIVE parse_literal(_)

\* the body of the try, lines 81-94
Try(n) ==
    CASE n.kind = "IntValue" -> int(n.text)
      [] n.kind = "FloatValue" -> float(n.text)
      [] n.kind = "BooleanValue" -> Returns([Res("bool") EXCEPT !.flag = n.flag])
      [] n.kind = "ListValue" ->
            LET items == [i \in 1..Len(n.values) |-> parse_literal(n.values[i])]
                failed == {i \in 1..Len(items) : items[i].tag = "raised"}
            IN
            IF failed = {}
            THEN Returns([Res("list") EXCEPT !.items = items])
            ELSE Raises(items[CHOOSE i \in failed : \A j \in failed : i <= j].exc)
      [] n.kind = "StringValue" -> Returns([Res("str") EXCEPT !.text = n.text])
      [] OTHER -> Raises("ValueError")

\* a parse_literal whose handler is "except TypeError"
parse_literal_except_TypeError(n) ==
    LET try == Try(n) IN
    IF try.raised = None THEN try.val
    ELSE IF try.raised = "TypeError" THEN [Res("exception") EXCEPT !.exc = try.raised]
    ELSE [Res("raised") EXCEPT !.exc = try.raised]

\* ScalarTypes.parse_literal(node): try ... except Exception as e: return e
parse_literal(n) ==
    LET try == Try(n) IN
    IF try.raised = None THEN try.val
    ELSE [Res("exception") EXCEPT !.exc = try.raised]

\* the call of parse_literal, with any node
ParseLiteral ==
    /\ node = NoNode
    /\ \E n \in Nodes :
          /\ node' = n
          /\ result' = parse_literal(n)
    /\ UNCHANGED <<keeperVars, historyVars, handlerVars, consumerVars, dbcall, threadVars>>

(***************************************************************************)
(* The state after construction and the specifications.                    *)
(***************************************************************************)
Init ==
    /\ EventKeeperInit
    /\ batch = EmptyDict
    /\ clock = 0
    /\ nputs = 0
    /\ ngets = 0
    /\ lastPut = [key \in EventKinds \X Points |-> None]
    /\ overwrote = FALSE
    /\ batchOverwrote = FALSE
    /\ lastEver = [key \in EventKinds \X Points |-> None]
    /\ hstate = "prepare"
    /\ hexc = None
    /\ protocol = None
    /\ transport = "open"
    /\ listeners = EmptyDict
    /\ objs = <<>>
    /\ unsub = {}
    /\ cstate = "notstarted"
    /\ cexc = None
    /\ sent = None
    /\ nwrites = 0
    /\ dbcall = NoCall
    /\ pput = NoPut
    /\ node = NoNode
    /\ result = NoResult

\* one connection's session: the read loop, the monitored points' events and
\* the delivery task
Next ==
    \/ Handshake
    \/ HandleMessage
    \/ ReceiveRaises
    \/ ClientClose
    \/ SourceEvent
    \/ ConsumerCycle

Spec == Init /\ [][Next]_vars

\* the query gateway serving requests beside one connection's session
NextDb ==
    \/ DbRequest
    \/ Handshake
    \/ HandleMessage
    \/ ReceiveRaises
    \/ ClientClose
    \/ ConsumerCycle

SpecDb == Init /\ [][NextDb]_vars

\* the aggregator alone: any sequence of put and get calls
KeeperPut ==
    /\ \E model \in Points, action \in EventKinds, value \in Values :
          PutCall(model, action, value)
    /\ UNCHANGED <<handlerVars, consumerVars, dbcall, threadVars, typesVars>>

KeeperGet ==
    GetCall /\ UNCHANGED <<handlerVars, consumerVars, dbcall, threadVars, typesVars>>

NextKeeper == KeeperPut \/ KeeperGet \/ Tick

SpecKeeper == Init /\ [][NextKeeper]_vars

\* d[action][model] = value on a defaultdict(dict) d
StoreInto(d, action, model, value) ==
    DictSet(d, action, DictSet(DefaultGet(d, action), model, value))

\* put on the callback thread, first step: the evaluation of self._events in
\* line 86 yields the dict that is pending now, the one of generation ngets
PutRead ==
    /\ nputs < MaxPuts
    /\ ~pput.active
    /\ \E model \in Points, action \in EventKinds, value \in Values :
          pput' = [active |-> TRUE, model |-> model, action |-> action,
                   value |-> value, gen |-> ngets]
    /\ nputs' = nputs + 1
    /\ UNCHANGED <<keeperVars, batch, clock, ngets, lastPut, overwrote, batchOverwrote,
                   lastEver, handlerVars, consumerVars, dbcall, typesVars>>

\* put on the callback thread, second step: the store of line 86 into the dict
\* read before, then line 87. With no get in between that dict is still
\* self._events; after one get it is the dict that get returned; after more
\* gets it is a dict nothing refers to any more.
PutWrite ==
    /\ pput.active
    /\ IF pput.gen = ngets
       THEN /\ put(pput.model, pput.action, pput.value)
            /\ lastPut' = [lastPut EXCEPT ![<<pput.action, pput.model>>] = pput.value]
            /\ overwrote' = (overwrote \/
                                lastPut[<<pput.action, pput.model>>] \notin {None, pput.value})
            /\ UNCHANGED batch
       ELSE /\ batch' = IF pput.gen + 1 = ngets
                        THEN StoreInto(batch, pput.action, pput.model, pput.value)
                        ELSE batch
            /\ _timestamps' = StoreInto(_timestamps, pput.action, pput.model, clock)
            /\ UNCHANGED <<_events, _latest, lastPut, overwrote>>
    /\ lastEver' = [lastEver EXCEPT ![<<pput.action, pput.model>>] = pput.value]
    /\ pput' = NoPut
    /\ UNCHANGED <<clock, nputs, ngets, batchOverwrote,
                   handlerVars, consumerVars, dbcall, typesVars>>

\* parse_literal alone, called with any node
NextTypes == ParseLiteral

SpecTypes == Init /\ [][NextTypes]_vars

\* the aggregator with put running on a thread of its own, next to get
NextConc == PutRead \/ PutWrite \/ KeeperGet \/ Tick

SpecConc == Init /\ [][NextConc]_vars

(***************************************************************************)
(* Properties                                                              *)
(***************************************************************************)
\* a step that is a call of EventKeeper.get
IsGet == ngets' # ngets

\* C1: the batch a get returns holds, for every (kind, point) put since the
\* previous get, exactly the value of the last such put, and nothing else.
C1_BatchIsLastPuts ==
    [][IsGet =>
         /\ DOMAIN batch' \subseteq EventKinds
         /\ \A k \in DOMAIN batch' : DOMAIN batch'[k] \subseteq Points
         /\ \A k \in EventKinds, p \in Points :
               Lookup(batch', k, p) = lastPut[<<k, p>>]]_vars

\* C1 witness: a get has returned a non-empty batch of a cycle in which a put
\* replaced a different pending value of the same (kind, point).
C1_Witness == ngets > 0 /\ batchOverwrote /\ batch # EmptyDict

\* C2: right after every get the pending map is empty, and a get returns
\* nothing for a (kind, point) that was not put since the previous get, so
\* no returned event is returned again.
C2_NoRedelivery ==
    [][IsGet =>
         /\ _events' = EmptyDict
         /\ \A k \in EventKinds, p \in Points :
               lastPut[<<k, p>>] = None => Lookup(batch', k, p) = None]_vars

\* C2 witness: two gets have run, an earlier one returned events (they are in
\* _latest) and the last one, with no put in between, returned none.
C2_Witness ==
    /\ ngets >= 2
    /\ _latest # EmptyDict
    /\ batch = EmptyDict
    /\ _events = EmptyDict

\* the listeners of point p that were created and not cleared
ActiveFor(p) == {i \in 1..Len(objs) : objs[i].name = p /\ objs[i].cleared = 0}

\* C3: at most one created and not yet cleared listener per point of the
\* connection, after any sequence of SUBSCRIBE and UNSUBSCRIBE commands.
C3_OneActivePerPoint == \A p \in Points : Cardinality(ActiveFor(p)) <= 1

\* C4: when handle_websocket has ended, every listener created for the
\* connection has been cleared, exactly once.
C4_EndedSessionCleared ==
    hstate = "raised" => \A i \in 1..Len(objs) : objs[i].cleared = 1

\* C5: no put is made for a point that was unsubscribed and not subscribed
\* again.
C5_NoPutAfterUnsubscribe ==
    [][\A p \in unsub \cap Points, k \in EventKinds, v \in Values :
          ~PutCall(p, k, v)]_vars

\* C6: once the consumer has stopped on a failed send, the session leaves its
\* read loop only with all its listeners cleared.
C6_SendFailureTearsDown ==
    [][(cstate = "stopped" /\ hstate = "receive" /\ hstate' # "receive") =>
          \A i \in 1..Len(objs') : objs'[i].cleared >= 1]_vars

\* the malformed commands: text that is not JSON, an object without "type" or
\* without "models", an object with an unknown "type"
MalformedMessages ==
    {[tp |-> "text", data |-> t] : t \in
        {t \in Texts : \/ t.syntax = "invalid"
                       \/ /\ t.syntax = "object"
                          /\ \/ ~t.hasType
                             \/ ~t.hasModels
                             \/ t.type \notin {"SUBSCRIBE", "UNSUBSCRIBE"}}}

\* C7: handling a malformed command changes neither the registry nor the
\* aggregator, and leaves the read loop and the consumer running.
C7_MalformedIgnored ==
    [][\A m \in MalformedMessages, err \in AdapterErrors :
          HandleOne(m, err) =>
              /\ hstate' = "receive"
              /\ listeners' = listeners /\ objs' = objs
              /\ UNCHANGED keeperVars
              /\ cstate' = cstate]_vars

\* the SUBSCRIBE commands that list an identifier whose adapter cannot be
\* created
SubscribesWithBad ==
    {[tp |-> "text", data |-> t] : t \in
        {t \in Texts : /\ t.syntax = "object" /\ t.hasType /\ t.hasModels
                       /\ t.type = "SUBSCRIBE"
                       /\ \E i \in 1..Len(t.models) : t.models[i] \in BadPoints}}

\* C8: a SUBSCRIBE listing a failing identifier leaves the session in its read
\* loop with every other identifier of the list subscribed.
C8_BadIdentifierSkipped ==
    [][\A m \in SubscribesWithBad, err \in AdapterErrors :
          HandleOne(m, err) =>
              /\ hstate' = "receive"
              /\ \A i \in 1..Len(m.data.models) :
                    m.data.models[i] \in Points =>
                        m.data.models[i] \in DOMAIN listeners']_vars

\* C9: a connection with no known negotiated format never gets past the
\* handshake, and its consumer is never started, so no send ever fails on the
\* format.
C9_UnknownFormatRejected ==
    /\ protocol \notin {"json", "bson"} => (hstate = "prepare" /\ cstate = "notstarted")
    /\ cexc # "ValueError"

\* C10: a query the engine raises for is answered with a structured error
\* response.
C10_EngineErrorAnswered ==
    dbcall.engine = "raises" => (dbcall.response = "error" /\ dbcall.raised = None)

\* the UNSUBSCRIBE commands
Unsubscribes ==
    {[tp |-> "text", data |-> t] : t \in
        {t \in Texts : /\ t.syntax = "object" /\ t.hasType /\ t.hasModels
                       /\ t.type = "UNSUBSCRIBE"}}

\* the identifiers an UNSUBSCRIBE command lists
Listed(m) == {m.data.models[i] : i \in 1..Len(m.data.models)}

\* C11: an UNSUBSCRIBE raises nothing and touches only the listed points that
\* are subscribed: for a listed point that is not subscribed no listener is
\* cleared, and every other entry of the registry and the aggregator stay as
\* they were.
C11_UnsubscribeAbsentNoOp ==
    [][\A m \in Unsubscribes :
          HandleOne(m, "RuntimeError") =>
              LET hit == Listed(m) \cap DOMAIN listeners IN
              /\ hstate' = "receive" /\ hexc' = hexc
              /\ listeners' = [p \in DOMAIN listeners \ hit |-> listeners[p]]
              /\ Len(objs') = Len(objs)
              /\ \A i \in 1..Len(objs) :
                    /\ objs'[i].name = objs[i].name
                    /\ objs'[i].cleared =
                          IF \E p \in hit : listeners[p] = i
                          THEN objs[i].cleared + 1 ELSE objs[i].cleared
              /\ UNCHANGED keeperVars]_vars

\* C11 witness: a point that never had a listener was unsubscribed while
\* another point is subscribed, and the session is still reading commands.
C11_Witness ==
    /\ hstate = "receive"
    /\ listeners # EmptyDict
    /\ \E p \in unsub \cap Points : \A i \in 1..Len(objs) : objs[i].name # p

\* C12: a get on an aggregator with nothing pending is possible, returns the
\* empty batch and leaves the aggregator as it was.
C12_EmptyGetReturnsEmpty ==
    [][(IsGet /\ _events = EmptyDict) =>
          (batch' = EmptyDict /\ UNCHANGED keeperVars)]_vars

\* C12 witness: a get has returned the empty batch although events were
\* returned by an earlier get, and nothing is pending.
C12_Witness ==
    /\ ngets >= 1
    /\ nputs >= 1
    /\ batch = EmptyDict
    /\ \A key \in EventKinds \X Points : lastPut[key] = None

\* C13: every cycle of the consumer makes exactly one write attempt for the
\* batch it drained, empty or not.
C13_EveryCycleWrites == [][IsGet => nwrites' = nwrites + 1]_vars

\* what the client decodes from a written text message
Decoded(data) == data.text

\* C15: with "json" and with "bson" alike, a cycle on an open connection
\* writes one message that decodes to {"events": <batch>} and the consumer
\* keeps running.
C15_BothFormatsDeliver ==
    [][(IsGet /\ protocol \in {"json", "bson"} /\ transport = "open") =>
          /\ cstate' = "running"
          /\ nwrites' = nwrites + 1
          /\ Decoded(sent') = [events |-> batch']]_vars

\* C16: once the consumer has stopped on a failed send it stays stopped, and
\* drains and writes nothing more.
C16_StoppedIsFinal ==
    [][cstate = "stopped" =>
          /\ cstate' = "stopped"
          /\ ngets' = ngets
          /\ nwrites' = nwrites
          /\ UNCHANGED <<_latest, batch>>
          /\ sent' = sent]_vars

\* C16 witness: the consumer has stopped on its failed send while further
\* cycles were still possible.
C16_Witness == cstate = "stopped" /\ nwrites >= 1 /\ ngets < MaxGets

\* the entries of a two-level map d other than the one of (kind, model)
Others(d, kind, model) ==
    [key \in {key \in EventKinds \X Points :
                 /\ key # <<kind, model>>
                 /\ key[1] \in DOMAIN d
                 /\ key[2] \in DOMAIN d[key[1]]} |-> d[key[1]][key[2]]]

\* C17: put(p, kind, v) sets the pending entry of (kind, p) to v and changes
\* no other pending entry (nor another entry's timestamp), nor _latest, the
\* last returned batch, the registry or the consumer.
C17_PutFrame ==
    [][\A p \in Points, kind \in EventKinds, v \in Values :
          PutCall(p, kind, v) =>
              /\ Lookup(_events', kind, p) = v
              /\ DOMAIN _events' = DOMAIN _events \cup {kind}
              /\ Others(_events', kind, p) = Others(_events, kind, p)
              /\ Others(_timestamps', kind, p) = Others(_timestamps, kind, p)
              /\ UNCHANGED <<_latest, batch, handlerVars, consumerVars>>]_vars

\* C17 witness: an ERROR event is pending for a point next to a value of the
\* same point and an ERROR event of another point.
C17_Witness ==
    \E p \in Points, q \in Points :
        /\ p # q
        /\ Lookup(_events, "ERROR", p) # None
        /\ Lookup(_events, "VALUE_CHANGED", p) # None
        /\ Lookup(_events, "ERROR", q) # None

\* C18: right after a get, _latest holds for every (kind, point) the value of
\* its most recent put (nothing for one never put); a put leaves _latest
\* alone; no step removes an entry of _latest.
C18_LatestIsLastEver ==
    [][/\ IsGet => \A key \in EventKinds \X Points :
                       Lookup(_latest', key[1], key[2]) = lastEver'[key]
       /\ nputs' # nputs => _latest' = _latest
       /\ \A key \in EventKinds \X Points :
             Lookup(_latest, key[1], key[2]) # None =>
                 Lookup(_latest', key[1], key[2]) # None]_vars

\* C18 witness: after a second get, _latest still holds a point's value from
\* an earlier batch next to a value of the same kind from the last batch.
C18_Witness ==
    /\ ngets >= 2
    /\ \E kind \in EventKinds, p \in Points, q \in Points :
          /\ p # q
          /\ Lookup(batch, kind, p) = None
          /\ Lookup(_latest, kind, p) # None
          /\ Lookup(batch, kind, q) # None

\* C19: every handle in listeners is a listener of that name that has not
\* been cleared, and no listener has been cleared more than once.
C19_RegistryHoldsActive ==
    /\ \A p \in DOMAIN listeners :
          /\ listeners[p] \in 1..Len(objs)
          /\ objs[listeners[p]].name = p
          /\ Active(objs[listeners[p]])
    /\ \A i \in 1..Len(objs) : objs[i].cleared <= 1

\* C19 witness: an UNSUBSCRIBE has cleared a listener while another one is
\* still in the registry.
C19_Witness ==
    /\ listeners # EmptyDict
    /\ \E i \in 1..Len(objs) : objs[i].cleared = 1

\* C14: a put whose two steps run around a get completes into the pending
\* events, to be returned by the next get, and leaves the batch already
\* returned as it was.
C14_ConcurrentPutSerialized ==
    [][(pput.active /\ ~pput'.active) =>
          /\ batch' = batch
          /\ Lookup(_events', pput.action, pput.model) = pput.value]_vars

\* 10^k
RECURSIVE Pow10(_)
Pow10(k) == IF k = 0 THEN 1 ELSE 10 * Pow10(k - 1)

\* the digits of a text and the number of them that follow its point
DigitsOf(text) == SelectSeq(text, LAMBDA c : c \in Digits)
FractionLen(text) ==
    IF \E i \in 1..Len(text) : text[i] = "."
    THEN Len(text) - (CHOOSE i \in 1..Len(text) : text[i] = ".")
    ELSE 0
\* the texts Python reads as a decimal number
IsDecimal(text) ==
    /\ \A i \in 1..Len(text) : text[i] \in Digits \cup {"."}
    /\ Cardinality({i \in 1..Len(text) : text[i] = "."}) <= 1
    /\ DigitsOf(text) # <<>>

\* r is an exception object of class exc
IsExc(r, exc) == r.tag = "exception" /\ r.exc = exc

RECURSIVE Conforms(_, _)
\* r is what the claim says parse_literal returns for node n
Conforms(n, r) ==
    CASE n.kind = "IntValue" ->
            IF IsDigits(n.text)
            THEN r.tag = "int" /\ r.num = DigitsValue(n.text)
            ELSE IsExc(r, "ValueError")
      [] n.kind = "FloatValue" ->
            IF IsDecimal(n.text)
            THEN /\ r.tag = "float"
                 /\ r.num * Pow10(FractionLen(n.text))
                        = DigitsValue(DigitsOf(n.text)) * Pow10(r.exp)
            ELSE IsExc(r, "ValueError")
      [] n.kind = "BooleanValue" -> r.tag = "bool" /\ r.flag = n.flag
      [] n.kind = "StringValue" -> r.tag = "str" /\ r.text = n.text
      [] n.kind = "ListValue" ->
            /\ r.tag = "list"
            /\ Len(r.items) = Len(n.values)
            /\ \A i \in 1..Len(n.values) : Conforms(n.values[i], r.items[i])
      [] OTHER -> IsExc(r, "ValueError")

\* C20: a call of parse_literal returns, never raises: the parsed value of an
\* int, float, boolean or string literal, the list of its elements' results
\* for a list literal, and the exception as a value for any other node or a
\* text that does not parse, also at its position inside a list.
C20_ParseLiteralReturns ==
    node # NoNode => (result.tag # "raised" /\ Conforms(node, result))

\* C20 witness: a list literal with an unsupported element next to an int was
\* parsed to a list holding an exception at that position.
C20_Witness ==
    /\ node.kind = "ListValue"
    /\ result.tag = "list"
    /\ \E i \in 1..Len(node.values), j \in 1..Len(node.values) :
          /\ node.values[i].kind = "EnumValue"
          /\ result.items[i].tag = "exception"
          /\ node.values[j].kind = "IntValue"
          /\ result.items[j].tag = "int"

====
